---------------------------- MODULE Spec2Model ----------------------------
(***************************************************************************)
(* Model of melitools.py: the paginated fetcher                            *)
(* (get_category_country_list), the row extractor and table assembler      *)
(* (single_df, get_specific_attribute, basic_df) and the enricher          *)
(* (calculate_discount_metrics).                                           *)
(*                                                                         *)
(* JSON values are tagged records: [t |-> "absent"] (no such key),         *)
(* [t |-> "null"], [t |-> "num", v |-> n], [t |-> "str", v |-> s],         *)
(* [t |-> "arr", v |-> <<...>>], [t |-> "obj", v |-> [key |-> value]].     *)
(* Python strings that the code iterates or concatenates (site ids, the    *)
(* category) are sequences of one-character strings.                       *)
(***************************************************************************)
EXTENDS Integers, Sequences, FiniteSets, TLC

VARIABLES
    \* get_category_country_list
    arg_countries,  \* the `countries` argument as passed by the caller
    countries,      \* the local `countries` (rebound at line 23)
    category,       \* the `category` argument
    limit,          \* the `limit` argument
    fpc,            \* "idle" | "call" | "loop" | "done" | "raised"
    country_pos,    \* position of the outer loop in `countries` (1-based)
    i,              \* the inner loop variable
    all_results,    \* list of accepted pages (each a list of items)
    result,         \* the last decoded response
    requests,       \* every GET issued so far, with the response it received
    printed,        \* what print() has written
    fret,           \* the returned list
    \* basic_df / single_df
    results,        \* the `results` argument: a list of listing records
    features,       \* the `features` argument (None, or a list of selectors)
    attributes,     \* the `attributes` argument (None, or a list of ids)
    dpc,            \* "idle" | "loop" | "done" | "raised"
    done_rows,      \* how many records the for loop of basic_df has consumed
    start,          \* the local `start`
    df,             \* the local `df` (unbound until first assigned)
    derr,           \* the exception that left basic_df, "none" if none
    \* calculate_discount_metrics
    mapper_currency,\* the module-level rate map (line 9)
    edf,            \* the `df` argument: its rows, each a function of the column labels
    epc,            \* "idle", the column about to be derived, "return", "done" | "raised"
    eerr            \* the exception that left the function, "none" if none

fvars == <<arg_countries, countries, category, limit, fpc, country_pos, i,
           all_results, result, requests, printed, fret>>

dvars == <<results, features, attributes, dpc, done_rows, start, df, derr>>

evars == <<mapper_currency, edf, epc, eerr>>

vars == <<fvars, dvars, evars>>

----------------------------------------------------------------------------
(* Bounds of the model *)
MaxCountries == 2
MaxLimit == 4
MaxRecords == 2
MaxRows == 2

(* Program constants *)
PageSize == 50

----------------------------------------------------------------------------
(* JSON values *)
Absent == [t |-> "absent"]
Null == [t |-> "null"]
Str(s) == [t |-> "str", v |-> s]
Arr(s) == [t |-> "arr", v |-> s]
Num(n) == [t |-> "num", v |-> n]
Bool(b) == [t |-> "bool", v |-> b]
Obj(f) == [t |-> "obj", v |-> f]

\* dict.get(key) / dict.get(key, None): an absent key reads as None
Get(obj, key) == IF obj[key].t = "absent" THEN Null ELSE obj[key]

----------------------------------------------------------------------------
(* The state of a function that is not being called *)

FetchIdle ==
    /\ arg_countries = [str |-> FALSE, v |-> <<>>]
    /\ countries = [str |-> FALSE, v |-> <<>>]
    /\ category = <<>>
    /\ limit = 0
    /\ fpc = "idle"
    /\ country_pos = 0
    /\ i = 0
    /\ all_results = <<>>
    /\ result = [results |-> Absent, error |-> Absent]
    /\ requests = <<>>
    /\ printed = <<>>
    /\ fret = <<>>

Unbound == [bound |-> FALSE, columns |-> {}, rows |-> <<>>]

DfIdle ==
    /\ results = <<>>
    /\ features = [none |-> TRUE, v |-> <<>>]
    /\ attributes = [none |-> TRUE, v |-> <<>>]
    /\ dpc = "idle"
    /\ done_rows = 0
    /\ start = TRUE
    /\ df = Unbound
    /\ derr = "none"

EnrichIdle ==
    /\ mapper_currency = [c \in {} |-> 0]
    /\ edf = <<>>
    /\ epc = "idle"
    /\ eerr = "none"

----------------------------------------------------------------------------
(* get_category_country_list *)

SiteIds == {<<"M", "A">>, <<"M", "B">>}
Categories == {<<"1">>}

\* line 36
RECURSIVE Flatten(_)
Flatten(ll) == IF ll = <<>> THEN <<>> ELSE Head(ll) \o Flatten(Tail(ll))

\* A Python str or list, held as the sequence its iteration yields: a str
\* yields its characters (one-character strings), a list its elements.
PyStr(s) == [str |-> TRUE, v |-> [k \in 1..Len(s) |-> <<s[k]>>]]
PyList(l) == [str |-> FALSE, v |-> l]

SeqsUpTo(S, n) == UNION {[1..k -> S] : k \in 0..n}

CountriesArgs == {PyStr(s) : s \in SiteIds}
                 \cup {PyList(l) : l \in SeqsUpTo(SiteIds, MaxCountries)}

\* what the upstream returns for item k of the page at `offset` of `site`
Item(site, offset, k) == [site_id |-> site, offset |-> offset, k |-> k]
Page(site, offset, n) == [k \in 1..n |-> Item(site, offset, k)]

\* the page lengths the upstream answers with: an empty page or a page of items
PageLens == {0, 2}

\* the decoded JSON bodies the search endpoint may answer a request with
Responses(site, offset) ==
    [results : {Absent, Null} \cup {Arr(Page(site, offset, n)) : n \in PageLens},
     error : {Absent, Str("forbidden")}]

\* lines 22-23: a single value passed as a string is wrapped in a list
NormaliseCountries_NoWrap(c) == c
NormaliseCountries(c) == IF c.str THEN PyList(<<Flatten(c.v)>>) ELSE c

\* line 25: `for country_id in countries`
Iterate(c) == c.v

\* line 27
Offset_Shifted(page) == PageSize * (page + 1)
Offset(page) == PageSize * page

\* lines 28-29: the URL's variable parts
Request(country_id, cat, offset) ==
    [site |-> country_id, category |-> country_id \o cat, offset |-> offset]

\* line 30: len(result.get('results')) fails on None
LenFails(resp) == Get(resp, "results").t # "arr"
IsEmptyPage_Never(resp) == FALSE
IsEmptyPage(resp) == Len(Get(resp, "results").v) = 0
\* line 32
HasError(resp) == Get(resp, "error") # Null

\* line 33
Diagnostic(country_id, cat, offset, resp) ==
    [key |-> country_id \o cat, offset |-> offset, error |-> Get(resp, "error")]

InLoopBody ==
    /\ fpc = "loop"
    /\ country_pos <= Len(Iterate(countries))
    /\ i < limit

country_id == Iterate(countries)[country_pos]

\* the GET of lines 28-29, answered by resp
Issue(resp) ==
    /\ result' = resp
    /\ requests' = Append(requests,
                          [pos |-> country_pos, page |-> i,
                           req |-> Request(country_id, category, Offset(i)),
                           resp |-> resp])

Break ==
    /\ country_pos' = country_pos + 1
    /\ i' = 0

InitFetch ==
    /\ DfIdle
    /\ EnrichIdle
    /\ arg_countries \in CountriesArgs
    /\ countries = arg_countries
    /\ category \in Categories
    /\ limit \in 0..MaxLimit
    /\ fpc = "call"
    /\ country_pos = 0
    /\ i = 0
    /\ all_results = <<>>
    /\ result = [results |-> Absent, error |-> Absent]
    /\ requests = <<>>
    /\ printed = <<>>
    /\ fret = <<>>

\* lines 22-24
FetchEnter ==
    /\ fpc = "call"
    /\ countries' = NormaliseCountries(countries)
    /\ all_results' = <<>>
    /\ country_pos' = 1
    /\ i' = 0
    /\ fpc' = "loop"
    /\ UNCHANGED <<dvars, evars>>
    /\ UNCHANGED <<arg_countries, category, limit, result, requests, printed, fret>>

\* lines 28-30, `results` missing or null: len(None) raises TypeError
FetchPageTypeError ==
    /\ InLoopBody
    /\ \E resp \in Responses(country_id, Offset(i)) :
        /\ LenFails(resp)
        /\ Issue(resp)
    /\ fpc' = "raised"
    /\ UNCHANGED <<dvars, evars>>
    /\ UNCHANGED <<arg_countries, countries, category, limit, country_pos, i,
                   all_results, printed, fret>>

\* lines 28-31: an empty page ends the country
FetchPageEmpty ==
    /\ InLoopBody
    /\ \E resp \in Responses(country_id, Offset(i)) :
        /\ ~LenFails(resp)
        /\ IsEmptyPage(resp)
        /\ Issue(resp)
    /\ Break
    /\ UNCHANGED <<dvars, evars>>
    /\ UNCHANGED <<arg_countries, countries, category, limit, fpc,
                   all_results, printed, fret>>

\* lines 28-34: a non-empty page carrying an error is reported and ends the country
FetchPageError ==
    /\ InLoopBody
    /\ \E resp \in Responses(country_id, Offset(i)) :
        /\ ~LenFails(resp)
        /\ ~IsEmptyPage(resp)
        /\ HasError(resp)
        /\ Issue(resp)
        /\ printed' = Append(printed, Diagnostic(country_id, category, Offset(i), resp))
    /\ Break
    /\ UNCHANGED <<dvars, evars>>
    /\ UNCHANGED <<arg_countries, countries, category, limit, fpc,
                   all_results, fret>>

\* lines 28-35: the page is accepted
FetchPageAppend ==
    /\ InLoopBody
    /\ \E resp \in Responses(country_id, Offset(i)) :
        /\ ~LenFails(resp)
        /\ ~IsEmptyPage(resp)
        /\ ~HasError(resp)
        /\ Issue(resp)
        /\ all_results' = Append(all_results, resp.results.v)
    /\ i' = i + 1
    /\ UNCHANGED <<dvars, evars>>
    /\ UNCHANGED <<arg_countries, countries, category, limit, fpc, country_pos,
                   printed, fret>>

\* line 26: range(limit) is exhausted
FetchRangeEnd ==
    /\ fpc = "loop"
    /\ country_pos <= Len(Iterate(countries))
    /\ i >= limit
    /\ Break
    /\ UNCHANGED <<dvars, evars>>
    /\ UNCHANGED <<arg_countries, countries, category, limit, fpc, all_results,
                   result, requests, printed, fret>>

\* line 36
FetchReturn ==
    /\ fpc = "loop"
    /\ country_pos > Len(Iterate(countries))
    /\ fret' = Flatten(all_results)
    /\ fpc' = "done"
    /\ UNCHANGED <<dvars, evars>>
    /\ UNCHANGED <<arg_countries, countries, category, limit, country_pos, i,
                   all_results, result, requests, printed>>

NextFetch ==
    \/ FetchEnter
    \/ FetchPageTypeError
    \/ FetchPageEmpty
    \/ FetchPageError
    \/ FetchPageAppend
    \/ FetchRangeEnd
    \/ FetchReturn

SpecFetch == InitFetch /\ [][NextFetch]_vars

----------------------------------------------------------------------------
(* single_df, get_specific_attribute, basic_df *)

\* A selector is a str (direct lookup) or a tuple of path segments
Direct(name) == [tuple |-> FALSE, path |-> <<name>>]
Nested(path) == [tuple |-> TRUE, path |-> path]

\* An optional list argument: None, or a list
PyNone == [none |-> TRUE, v |-> <<>>]
PySome(l) == [none |-> FALSE, v |-> l]

\* lines 48-52
DefaultFeatures ==
    <<Direct("site_id"), Direct("price"), Direct("currency_id"),
      Direct("available_quantity"), Direct("sold_quantity"), Direct("buying_mode"),
      Direct("listing_type_id"), Direct("condition"), Direct("accepts_mercadopago"),
      Direct("original_price"),
      Nested(<<"seller", "seller_reputation", "level_id">>),
      Nested(<<"shipping", "free_shipping">>),
      Nested(<<"address", "state_name">>)>>

\* line 54
DefaultAttributes == <<"BRAND", "MODEL">>

\* lines 47 and 53: `if not x` holds for None and for the empty list
OrDefault(arg, default) == IF arg.none \/ Len(arg.v) = 0 THEN default ELSE arg.v

\* str.join
RECURSIVE Join(_, _)
Join(path, sep) ==
    IF Len(path) = 1 THEN path[1] ELSE path[1] \o sep \o Join(Tail(path), sep)

\* lines 58 and 60: the column a selector is written to
ColName(feature) == IF feature.tuple THEN Join(feature.path, "_") ELSE feature.path[1]

HasKey(obj, key) == obj.t = "obj" /\ key \in DOMAIN obj.v

\* jmespath.search of the dotted path: a segment that cannot be followed
\* (no such key, or the current value is not an object) gives None
RECURSIVE JmesPath(_, _)
JmesPath(path, data) ==
    IF path = <<>> THEN data
    ELSE IF HasKey(data, Head(path)) THEN JmesPath(Tail(path), data.v[Head(path)])
    ELSE Null

\* a JMESPath projection keeps the non-null results only
RECURSIVE Project(_, _)
Project(elems, key) ==
    IF elems = <<>> THEN <<>>
    ELSE (IF JmesPath(<<key>>, Head(elems)) = Null THEN <<>>
          ELSE <<JmesPath(<<key>>, Head(elems))>>)
         \o Project(Tail(elems), key)

IdMatches(elem, attribute_id) == JmesPath(<<"id">>, elem) = Str(attribute_id)

\* lines 97-98: attributes[?id=='<attribute_id>'].value_name | [0]
get_specific_attribute(attribute_id, rec) ==
    LET attrs == JmesPath(<<"attributes">>, rec)
        found == IF attrs.t = "arr"
                 THEN Project(SelectSeq(attrs.v, LAMBDA e : IdMatches(e, attribute_id)),
                              "value_name")
                 ELSE <<>>
    IN  IF found = <<>> THEN Null ELSE found[1]

\* A one-row frame under construction: its row, or the exception raised
Frame(row) == [err |-> "none", row |-> row]
Raised(e) == [err |-> e, row |-> <<>>]

\* line 55
EmptyFrame == Frame([c \in {} |-> Null])

\* df[col] = value on a frame whose index is [0]: a scalar or None fills the
\* cell, a list must have the length of the index and fills the cell with
\* its element
SetItem(frame, col, value) ==
    IF frame.err # "none" THEN frame
    ELSE IF value.t = "arr" /\ Len(value.v) # 1 THEN Raised("ValueError")
    ELSE LET cell == IF value.t = "arr" THEN value.v[1] ELSE value
         IN  Frame([c \in DOMAIN frame.row \cup {col} |->
                       IF c = col THEN cell ELSE frame.row[c]])

\* lines 57-60: one iteration of the loop over features
SetFeature_Tolerant(frame, feature, rec) ==
    SetItem(frame, ColName(feature), JmesPath(feature.path, rec))
SetFeature(frame, feature, rec) ==
    IF frame.err # "none" THEN frame
    ELSE IF feature.tuple
    THEN SetItem(frame, ColName(feature), JmesPath(feature.path, rec))
    ELSE IF HasKey(rec, feature.path[1])
    THEN SetItem(frame, feature.path[1], rec.v[feature.path[1]])
    ELSE Raised("KeyError")

\* lines 56-60
RECURSIVE SetFeatures(_, _, _)
SetFeatures(frame, feats, rec) ==
    IF feats = <<>> THEN frame
    ELSE SetFeatures(SetFeature(frame, Head(feats), rec), Tail(feats), rec)

\* lines 61-62
RECURSIVE SetAttributes(_, _, _)
SetAttributes(frame, attrs, rec) ==
    IF attrs = <<>> THEN frame
    ELSE SetAttributes(SetItem(frame, Head(attrs), get_specific_attribute(Head(attrs), rec)),
                       Tail(attrs), rec)

\* lines 39-63
single_df(rec, feats, attrs) ==
    SetAttributes(SetFeatures(EmptyFrame, OrDefault(feats, DefaultFeatures), rec),
                  OrDefault(attrs, DefaultAttributes), rec)

\* a DataFrame: its column labels and its rows, each a function of the labels
DataFrame(columns, rows) == [bound |-> TRUE, columns |-> columns, rows |-> rows]

\* line 77: the one-row frame single_df returned
OneRow(frame) == DataFrame(DOMAIN frame.row, <<frame.row>>)

Reindex(row, columns) ==
    [c \in columns |-> IF c \in DOMAIN row THEN row[c] ELSE Null]

\* lines 80-83: pd.concat([a, b], ignore_index=True)
Concat_Prepend(a, b) ==
    LET columns == a.columns \cup b.columns
    IN  DataFrame(columns,
                  [n \in 1..Len(b.rows) |-> Reindex(b.rows[n], columns)]
                  \o [n \in 1..Len(a.rows) |-> Reindex(a.rows[n], columns)])
Concat(a, b) ==
    LET columns == a.columns \cup b.columns
    IN  DataFrame(columns,
                  [n \in 1..Len(a.rows) |-> Reindex(a.rows[n], columns)]
                  \o [n \in 1..Len(b.rows) |-> Reindex(b.rows[n], columns)])

(* the records, selectors and attribute ids the model calls basic_df with *)

Fields(keys, f) == Obj([key \in keys |-> f[key]])

FullRecord ==
    [site_id |-> Str("MLA"), price |-> Num(100), currency_id |-> Str("ARS"),
     available_quantity |-> Num(1), sold_quantity |-> Num(5),
     buying_mode |-> Str("buy_it_now"), listing_type_id |-> Str("gold_special"),
     condition |-> Str("new"), accepts_mercadopago |-> Bool(TRUE),
     original_price |-> Null,
     seller |-> Obj([seller_reputation |-> Obj([level_id |-> Str("5_green")])]),
     shipping |-> Obj([free_shipping |-> Bool(TRUE)]),
     address |-> Obj([state_name |-> Str("Capital Federal")]),
     tags |-> Arr(<<Str("good_quality_picture")>>),
     attributes |-> Arr(<<Obj([id |-> Str("BRAND"), value_name |-> Str("Acme")]),
                          Obj([id |-> Str("MODEL"), value_name |-> Str("X1")])>>)]

Without(key) == Fields(DOMAIN FullRecord \ {key}, FullRecord)
With(key, value) ==
    Obj([k \in DOMAIN FullRecord |-> IF k = key THEN value ELSE FullRecord[k]])

Records ==
    {Obj(FullRecord),
     Without("price"),
     With("original_price", Num(150)),
     Without("seller"),
     With("seller", Null),
     With("seller", Obj([seller_reputation |-> Obj([c \in {} |-> Null])])),
     With("seller", Obj([seller_reputation |-> Obj([level_id |-> Null])])),
     Without("attributes"),
     With("attributes", Arr(<<Obj([id |-> Str("BRAND"), value_name |-> Str("Acme")])>>)),
     With("attributes", Arr(<<Obj([id |-> Str("MODEL"), value_name |-> Null]),
                               Obj([id |-> Str("BRAND"), value_name |-> Str("Acme")]),
                               Obj([id |-> Str("MODEL"), value_name |-> Str("X2")])>>)),
     With("tags", Arr(<<Str("good_quality_picture"), Str("immediate_payment")>>))}

FeaturesArgs ==
    {PyNone,
     PySome(<<>>),
     PySome(<<Direct("price"), Nested(<<"seller", "seller_reputation", "level_id">>)>>),
     PySome(<<Nested(<<"address", "state_name">>), Direct("tags"),
              Direct("original_price")>>)}

AttributesArgs == {PyNone, PySome(<<>>), PySome(<<"MODEL">>)}

InitDf ==
    /\ FetchIdle
    /\ EnrichIdle
    /\ results \in SeqsUpTo(Records, MaxRecords)
    /\ features \in FeaturesArgs
    /\ attributes \in AttributesArgs
    /\ dpc = "loop"
    /\ done_rows = 0
    /\ start = TRUE
    /\ df = Unbound
    /\ derr = "none"

InDfLoop == dpc = "loop" /\ done_rows < Len(results)

\* the loop variable `result` of basic_df
record == results[done_rows + 1]

\* lines 76-78
BasicDfFirst ==
    /\ InDfLoop
    /\ start
    /\ single_df(record, features, attributes).err = "none"
    /\ df' = OneRow(single_df(record, features, attributes))
    /\ start' = FALSE
    /\ done_rows' = done_rows + 1
    /\ UNCHANGED <<results, features, attributes, dpc, derr>>
    /\ UNCHANGED <<fvars, evars>>

\* lines 79-83
BasicDfConcat ==
    /\ InDfLoop
    /\ ~start
    /\ single_df(record, features, attributes).err = "none"
    /\ df' = Concat(df, OneRow(single_df(record, features, attributes)))
    /\ done_rows' = done_rows + 1
    /\ UNCHANGED <<results, features, attributes, dpc, start, derr>>
    /\ UNCHANGED <<fvars, evars>>

\* lines 77 and 81: single_df raises and the exception leaves basic_df
BasicDfRaise ==
    /\ InDfLoop
    /\ single_df(record, features, attributes).err # "none"
    /\ derr' = single_df(record, features, attributes).err
    /\ dpc' = "raised"
    /\ UNCHANGED <<results, features, attributes, done_rows, start, df>>
    /\ UNCHANGED <<fvars, evars>>

\* line 84
BasicDfReturn ==
    /\ dpc = "loop"
    /\ done_rows >= Len(results)
    /\ df.bound
    /\ dpc' = "done"
    /\ UNCHANGED <<results, features, attributes, done_rows, start, df, derr>>
    /\ UNCHANGED <<fvars, evars>>

\* line 84, the loop body never ran: `df` was never assigned
BasicDfUnbound ==
    /\ dpc = "loop"
    /\ done_rows >= Len(results)
    /\ ~df.bound
    /\ derr' = "UnboundLocalError"
    /\ dpc' = "raised"
    /\ UNCHANGED <<results, features, attributes, done_rows, start, df>>
    /\ UNCHANGED <<fvars, evars>>

NextDf ==
    \/ BasicDfFirst
    \/ BasicDfConcat
    \/ BasicDfRaise
    \/ BasicDfReturn
    \/ BasicDfUnbound

SpecDf == InitDf /\ [][NextDf]_vars

----------------------------------------------------------------------------
(* calculate_discount_metrics *)

\* Numbers are fractions n/d in lowest terms with d > 0; NaN (pandas' null)
\* is 0/0.
RECURSIVE GCD(_, _)
GCD(a, b) == IF b = 0 THEN a ELSE GCD(b, a % b)
Abs(a) == IF a < 0 THEN -a ELSE a

NaN == [n |-> 0, d |-> 0]
Frac(n, d) ==
    IF d = 0 THEN NaN
    ELSE LET g == GCD(Abs(n), Abs(d))
             sign == IF d < 0 THEN -1 ELSE 1
         IN  [n |-> sign * (n \div g), d |-> sign * (d \div g)]
Int2Num(a) == [n |-> a, d |-> 1]

\* Series.isna
IsNa(x) == x.d = 0

\* a - b and a / b on floats, NaN propagating
Minus(a, b) == IF IsNa(a) \/ IsNa(b) THEN NaN ELSE Frac(a.n * b.d - b.n * a.d, a.d * b.d)
Over(a, b) == IF IsNa(a) \/ IsNa(b) THEN NaN ELSE Frac(a.n * b.d, a.d * b.n)

Currencies == {"USD", "ARS", "BRL"}

\* the rate maps line 9 may leave: each currency missing or present with a rate
RateMaps ==
    {m \in [Currencies -> {0, 1, 2, 5, 1000}] :
        /\ m["USD"] \in {0, 1, 2}
        /\ m["ARS"] \in {0, 1000}
        /\ m["BRL"] \in {0, 5}}
MapOf(m) == [c \in {c \in Currencies : m[c] # 0} |-> Int2Num(m[c])]

Prices == {100, 200}
OriginalPrices == {150}

\* the rows of a table basic_df built: price, currency_id, original_price
InputRows ==
    {[c \in {"price", "currency_id", "original_price"} |->
        CASE c = "price" -> Int2Num(p)
          [] c = "currency_id" -> cur
          [] c = "original_price" -> o] :
     p \in Prices, cur \in Currencies,
     o \in {NaN} \cup {Int2Num(x) : x \in OriginalPrices}}

Value(v) == [err |-> "none", v |-> v]
KeyError == [err |-> "KeyError", v |-> NaN]

\* lines 111-112 and 119-120: the lambda applied to one row
ToUSD_AlwaysLookup(row, col) ==
    IF row["currency_id"] \in DOMAIN mapper_currency
    THEN Value(Over(row[col], mapper_currency[row["currency_id"]]))
    ELSE KeyError
ToUSD_DefaultRate(row, col) ==
    IF row["currency_id"] # "USD"
    THEN IF row["currency_id"] \in DOMAIN mapper_currency
         THEN Value(Over(row[col], mapper_currency[row["currency_id"]]))
         ELSE Value(row[col])
    ELSE Value(row[col])
ToUSD(row, col) ==
    IF row["currency_id"] # "USD"
    THEN IF row["currency_id"] \in DOMAIN mapper_currency
         THEN Value(Over(row[col], mapper_currency[row["currency_id"]]))
         ELSE KeyError
    ELSE Value(row[col])

\* lines 114-115
DiscountFlag_Always(row) == 1
DiscountFlag(row) == IF IsNa(row["original_price"]) THEN 0 ELSE 1

\* line 117: the lambda applied to one row
DescuentoPrecio(row) ==
    IF row["discount"] = 1 THEN Minus(row["original_price"], row["price"])
    ELSE Int2Num(0)

\* df.apply(f, axis=1) raises as soon as f raises for a row
ApplyRaises(col) == \E n \in 1..Len(edf) : ToUSD(edf[n], col).err # "none"

\* df[col] = <one value per row>
SetColumn(rows, col, values) ==
    [n \in 1..Len(rows) |->
        [c \in DOMAIN rows[n] \cup {col} |-> IF c = col THEN values[n] ELSE rows[n][c]]]

InitEnrich ==
    /\ FetchIdle
    /\ DfIdle
    /\ mapper_currency \in {MapOf(m) : m \in RateMaps}
    /\ edf \in UNION {[1..k -> InputRows] : k \in 1..MaxRows}
    /\ epc = "price_USD"
    /\ eerr = "none"

\* lines 111-112
EnrichPriceUSD ==
    /\ epc = "price_USD"
    /\ ~ApplyRaises("price")
    /\ edf' = SetColumn(edf, "price_USD", [n \in 1..Len(edf) |-> ToUSD(edf[n], "price").v])
    /\ epc' = "discount"
    /\ UNCHANGED <<mapper_currency, eerr>>
    /\ UNCHANGED <<fvars, dvars>>

\* lines 111-112: a currency without rate, mapper_currency[...] raises KeyError
EnrichPriceUSDKeyError ==
    /\ epc = "price_USD"
    /\ ApplyRaises("price")
    /\ eerr' = "KeyError"
    /\ epc' = "raised"
    /\ UNCHANGED <<mapper_currency, edf>>
    /\ UNCHANGED <<fvars, dvars>>

\* lines 114-115
EnrichDiscount ==
    /\ epc = "discount"
    /\ edf' = SetColumn(edf, "discount", [n \in 1..Len(edf) |-> DiscountFlag(edf[n])])
    /\ epc' = "descuento_precio"
    /\ UNCHANGED <<mapper_currency, eerr>>
    /\ UNCHANGED <<fvars, dvars>>

\* line 117
EnrichDescuentoPrecio ==
    /\ epc = "descuento_precio"
    /\ edf' = SetColumn(edf, "descuento_precio",
                        [n \in 1..Len(edf) |-> DescuentoPrecio(edf[n])])
    /\ epc' = "descuento_USD"
    /\ UNCHANGED <<mapper_currency, eerr>>
    /\ UNCHANGED <<fvars, dvars>>

\* lines 119-120
EnrichDescuentoUSD ==
    /\ epc = "descuento_USD"
    /\ IF ApplyRaises("descuento_precio")
       THEN /\ eerr' = "KeyError"
            /\ epc' = "raised"
            /\ edf' = edf
       ELSE /\ edf' = SetColumn(edf, "descuento_USD",
                                [n \in 1..Len(edf) |-> ToUSD(edf[n], "descuento_precio").v])
            /\ epc' = "return"
            /\ eerr' = eerr
    /\ UNCHANGED mapper_currency
    /\ UNCHANGED <<fvars, dvars>>

\* line 121
EnrichReturn ==
    /\ epc = "return"
    /\ epc' = "done"
    /\ UNCHANGED <<mapper_currency, edf, eerr>>
    /\ UNCHANGED <<fvars, dvars>>

NextEnrich ==
    \/ EnrichPriceUSD
    \/ EnrichPriceUSDKeyError
    \/ EnrichDiscount
    \/ EnrichDescuentoPrecio
    \/ EnrichDescuentoUSD
    \/ EnrichReturn

SpecEnrich == InitEnrich /\ [][NextEnrich]_vars

Init == InitFetch \/ InitDf \/ InitEnrich
Next == NextFetch \/ NextDf \/ NextEnrich
Spec == Init /\ [][Next]_vars

----------------------------------------------------------------------------
(* Properties of get_category_country_list *)

\* the country codes the caller asked for, in the caller's order
AskedCountries ==
    IF arg_countries.str THEN <<Flatten(arg_countries.v)>> ELSE arg_countries.v

ReqIdx == 1..Len(requests)

ErrorSignalled(resp) == resp.error.t \notin {"absent", "null"}
ResultsEmpty(resp) == resp.results.t = "arr" /\ Len(resp.results.v) = 0
PageAccepted(resp) ==
    /\ resp.results.t = "arr"
    /\ Len(resp.results.v) > 0
    /\ ~ErrorSignalled(resp)

\* the country at position r.pos is left for good right after request k
CountryEndsAt(k) ==
    /\ \A j \in ReqIdx : j > k => requests[j].pos > requests[k].pos
    /\ k = Len(requests) => fpc # "raised" /\ country_pos > requests[k].pos
    /\ k < Len(requests) => requests[k + 1].pos = requests[k].pos + 1

RECURSIVE AcceptedItems(_)
AcceptedItems(log) ==
    IF log = <<>> THEN <<>>
    ELSE (IF PageAccepted(Head(log).resp) THEN Head(log).resp.results.v ELSE <<>>)
         \o AcceptedItems(Tail(log))

\* C1: a response whose error field is non-null never makes the fetch raise,
\* whatever else it contains: the diagnostic (country+category, offset, error
\* payload) is printed, the country's pagination ends, the pages collected so
\* far are kept and the next country is fetched.
C1_ErrorNeverRaises ==
    \A k \in ReqIdx :
        ErrorSignalled(requests[k].resp) =>
            /\ CountryEndsAt(k)
            /\ \E d \in 1..Len(printed) :
                   printed[d] = [key |-> AskedCountries[requests[k].pos] \o category,
                                 offset |-> PageSize * requests[k].page,
                                 error |-> requests[k].resp.error]
            /\ AcceptedItems(SubSeq(requests, 1, k - 1))
                   = SubSeq(Flatten(all_results), 1,
                            Len(AcceptedItems(SubSeq(requests, 1, k - 1))))

\* C3: pagination of a country halts on its first empty page: no later page
\* of the country is requested, nothing of the empty page is collected, the
\* items of the country's earlier pages are kept (and returned), and the
\* fetch moves on to the next country.
C3_HaltsOnEmptyPage ==
    \A k \in ReqIdx :
        ResultsEmpty(requests[k].resp) =>
            /\ CountryEndsAt(k)
            /\ \A j \in 1..(k - 1) :
                   requests[j].pos = requests[k].pos =>
                       \E a \in 1..Len(all_results) : all_results[a] = requests[j].resp.results.v
            /\ Len(Flatten(all_results))
                   = Len(AcceptedItems(SubSeq(requests, 1, k - 1)))
                     + Len(AcceptedItems(SubSeq(requests, k + 1, Len(requests))))
            /\ fpc = "done" =>
                   /\ \A j \in 1..(k - 1) :
                          requests[j].pos = requests[k].pos =>
                              \A n \in 1..Len(requests[j].resp.results.v) :
                                  \E m \in 1..Len(fret) : fret[m] = requests[j].resp.results.v[n]
                   /\ \A p \in (requests[k].pos + 1)..Len(AskedCountries) :
                          \E j \in ReqIdx : requests[j].pos = p

W_C3 ==
    /\ fpc = "done"
    /\ \E k \in ReqIdx :
        /\ ResultsEmpty(requests[k].resp)
        /\ requests[k].page = 2
        /\ requests[k].page < limit - 1
        /\ k < Len(requests)
        /\ \E m \in 1..Len(fret) :
               /\ fret[m].site_id = requests[k].req.site
               /\ fret[m].offset = PageSize

\* C4: the returned list is the concatenation of the accepted pages' item
\* lists in request order, requests being ordered by country position (the
\* caller's order) and then by ascending page index; a single code passed as
\* a string is fetched as the one-element list holding it.
C4_ReturnsConcatenation ==
    fpc = "done" =>
        /\ fret = AcceptedItems(requests)
        /\ \A k \in ReqIdx :
               /\ requests[k].pos \in 1..Len(AskedCountries)
               /\ requests[k].req.site = AskedCountries[requests[k].pos]
               /\ \A n \in 1..Len(requests[k].resp.results.v) :
                      requests[k].resp.results.v[n].site_id = requests[k].req.site
        /\ \A j, k \in ReqIdx :
               j < k => \/ requests[j].pos < requests[k].pos
                        \/ /\ requests[j].pos = requests[k].pos
                           /\ requests[j].page < requests[k].page

W_C4 ==
    /\ fpc = "done"
    /\ ~arg_countries.str
    /\ Len(all_results) >= 3
    /\ \E j, k \in ReqIdx :
        /\ requests[j].pos # requests[k].pos
        /\ PageAccepted(requests[j].resp)
        /\ PageAccepted(requests[k].resp)
        /\ requests[k].page > 0

\* C10: per country the requests go out in strictly ascending page index
\* from 0, page index p carries offset 50*p and the category key
\* country+category, no country gets more than `limit` requests, and the
\* requests of one country all precede those of the next.
C10_RequestSchedule ==
    /\ \A k \in ReqIdx :
           /\ requests[k].pos \in 1..Len(AskedCountries)
           /\ requests[k].page \in 0..(limit - 1)
           /\ requests[k].req.site = AskedCountries[requests[k].pos]
           /\ requests[k].req.offset = PageSize * requests[k].page
           /\ requests[k].req.category = AskedCountries[requests[k].pos] \o category
           /\ IF k = 1 \/ requests[k - 1].pos # requests[k].pos
              THEN requests[k].page = 0
              ELSE requests[k].page = requests[k - 1].page + 1
           /\ k > 1 => requests[k - 1].pos <= requests[k].pos
    /\ \A p \in 1..Len(AskedCountries) :
           Cardinality({k \in ReqIdx : requests[k].pos = p}) <= limit

W_C10 ==
    /\ Len(requests) >= 4
    /\ \E j, k \in ReqIdx :
        /\ j < k
        /\ requests[j].pos < requests[k].pos
        /\ requests[j].page = 2
        /\ requests[k].page = 1

----------------------------------------------------------------------------
(* Properties of single_df and basic_df *)

\* the selectors and attribute ids in effect: the caller's, or the defaults
\* when the caller supplies none
Selectors ==
    IF features.none \/ features.v = <<>> THEN DefaultFeatures ELSE features.v
AttributeIds ==
    IF attributes.none \/ attributes.v = <<>> THEN DefaultAttributes ELSE attributes.v

SelIdx == 1..Len(Selectors)
AttrIdx == 1..Len(AttributeIds)

\* the value reached after following the first n segments of path, null as
\* soon as a segment is missing
RECURSIVE At(_, _, _)
At(rec, path, n) ==
    IF n = 0 THEN rec
    ELSE LET parent == At(rec, path, n - 1)
         IN  IF parent.t = "obj" /\ path[n] \in DOMAIN parent.v
             THEN parent.v[path[n]] ELSE Null

PathMissing(rec, path) ==
    \E n \in 1..Len(path) :
        LET parent == At(rec, path, n - 1)
        IN  ~(parent.t = "obj" /\ path[n] \in DOMAIN parent.v)

AttributeList(rec) ==
    IF "attributes" \in DOMAIN rec.v /\ rec.v["attributes"].t = "arr"
    THEN rec.v["attributes"].v ELSE <<>>

\* positions of the attribute entries carrying the id, and of those among
\* them with a display value
Matching(rec, id) ==
    {n \in 1..Len(AttributeList(rec)) :
        /\ AttributeList(rec)[n].t = "obj"
        /\ "id" \in DOMAIN AttributeList(rec)[n].v
        /\ AttributeList(rec)[n].v["id"] = Str(id)}
Valued(rec, id) ==
    {n \in Matching(rec, id) :
        /\ "value_name" \in DOMAIN AttributeList(rec)[n].v
        /\ AttributeList(rec)[n].v["value_name"] # Null}

AttributeValue(rec, id) ==
    IF Valued(rec, id) = {} THEN Null
    ELSE AttributeList(rec)[CHOOSE n \in Valued(rec, id) :
                               \A m \in Valued(rec, id) : n <= m].v["value_name"]

SelectorValue(rec, feature) == At(rec, feature.path, Len(feature.path))

\* the cell a one-row frame holds for a value: the value, or its only element
Cell(value) == IF value.t = "arr" /\ Len(value.v) = 1 THEN value.v[1] ELSE value

DirectAbsent(rec) ==
    \E n \in SelIdx :
        ~Selectors[n].tuple /\ Selectors[n].path[1] \notin DOMAIN rec.v

\* some selected value is a list that does not have exactly one element
ListMismatch(rec) ==
    \/ \E n \in SelIdx :
           /\ SelectorValue(rec, Selectors[n]).t = "arr"
           /\ Len(SelectorValue(rec, Selectors[n]).v) # 1
    \/ \E n \in AttrIdx :
           /\ AttributeValue(rec, AttributeIds[n]).t = "arr"
           /\ Len(AttributeValue(rec, AttributeIds[n]).v) # 1

single_df_raised == dpc = "raised" /\ derr # "UnboundLocalError"

\* every extracted row holds null where a nested path is missing and where no
\* attribute entry carries the id
TolerantNulls ==
    \A j \in 1..done_rows :
        /\ \A n \in SelIdx :
               Selectors[n].tuple /\ PathMissing(results[j], Selectors[n].path)
                   => df.rows[j][ColName(Selectors[n])] = Null
        /\ \A n \in AttrIdx :
               Matching(results[j], AttributeIds[n]) = {}
                   => df.rows[j][AttributeIds[n]] = Null

\* C2: basic_df on an empty record sequence returns a valid zero-row table.
C2_EmptyGivesZeroRowTable ==
    results = <<>> /\ dpc \in {"done", "raised"} =>
        dpc = "done" /\ df.bound /\ df.rows = <<>>

\* C5: when extraction succeeds for every record of a non-empty sequence,
\* basic_df returns one row per record in input order, every row over the
\* same columns (one per selector in effect, one per attribute id in effect),
\* row n holding the values extracted from record n, null where missing.
C5_OneRowPerRecord ==
    dpc = "done" /\ results # <<>> =>
        /\ Len(df.rows) = Len(results)
        /\ df.columns = {ColName(Selectors[n]) : n \in SelIdx}
                         \cup {AttributeIds[n] : n \in AttrIdx}
        /\ \A j \in 1..Len(df.rows) :
               /\ DOMAIN df.rows[j] = df.columns
               /\ \A n \in SelIdx :
                      df.rows[j][ColName(Selectors[n])]
                          = Cell(SelectorValue(results[j], Selectors[n]))
               /\ \A n \in AttrIdx :
                      df.rows[j][AttributeIds[n]]
                          = AttributeValue(results[j], AttributeIds[n])

W_C5 ==
    /\ dpc = "done"
    /\ Len(df.rows) = 2
    /\ df.rows[1] # df.rows[2]
    /\ results[1] # Obj(FullRecord)
    /\ results[2] # Obj(FullRecord)
    /\ \E j \in 1..2 : \E c \in df.columns : df.rows[j][c] = Null /\ c # "original_price"

\* C6 as stated: single_df fails if and only if some direct selector names a
\* field absent from the record; a missing nested path and an attribute id
\* without matching entry never fail and give null.
C6_FailsIffDirectAbsent ==
    /\ \A j \in 1..done_rows : ~DirectAbsent(results[j])
    /\ single_df_raised => DirectAbsent(results[done_rows + 1])
    /\ TolerantNulls

\* C6 as amended: single_df fails if and only if some direct selector names a
\* field absent from the record (KeyError) or some selected value is a list
\* that does not have exactly one element (ValueError); a missing nested path
\* and an attribute id without matching entry never fail and give null.
C6_FailsIffAbsentOrList ==
    /\ \A j \in 1..done_rows :
           ~DirectAbsent(results[j]) /\ ~ListMismatch(results[j])
    /\ single_df_raised =>
           DirectAbsent(results[done_rows + 1]) \/ ListMismatch(results[done_rows + 1])
    /\ single_df_raised /\ derr = "KeyError" => DirectAbsent(results[done_rows + 1])
    /\ TolerantNulls

W_C6 ==
    /\ Len(results) = 2
    /\ single_df_raised
    /\ derr = "KeyError"
    /\ DirectAbsent(results[2])
    /\ done_rows = 1
    /\ \E n \in SelIdx :
           /\ Selectors[n].tuple
           /\ "seller" \notin DOMAIN results[1].v
           /\ Selectors[n].path[1] = "seller"
           /\ df.rows[1][ColName(Selectors[n])] = Null

----------------------------------------------------------------------------
(* Properties of calculate_discount_metrics *)

RowIdx == 1..Len(edf)
Derived == {"price_USD", "discount", "descuento_precio", "descuento_USD"}

Zero == [n |-> 0, d |-> 1]

RateMissing(row) ==
    row["currency_id"] # "USD" /\ row["currency_id"] \notin DOMAIN mapper_currency

\* C7: after the enrichment, in every row discount is 1 exactly when
\* original_price is non-null and 0 otherwise; discount 0 gives
\* descuento_precio = 0 and descuento_USD = 0 whatever the currency;
\* discount 1 gives descuento_precio = original_price - price.
C7_DiscountInvariant ==
    epc = "done" =>
        \A n \in RowIdx :
            /\ edf[n]["discount"] \in {0, 1}
            /\ edf[n]["discount"] = 1 <=> edf[n]["original_price"].d # 0
            /\ edf[n]["discount"] = 0 =>
                   edf[n]["descuento_precio"] = Zero /\ edf[n]["descuento_USD"] = Zero
            /\ edf[n]["discount"] = 1 =>
                   /\ edf[n]["descuento_precio"].d = 1
                   /\ edf[n]["descuento_precio"].n
                          = edf[n]["original_price"].n - edf[n]["price"].n

W_C7 ==
    /\ epc = "done"
    /\ \E m, n \in RowIdx :
        /\ edf[m]["discount"] = 0
        /\ edf[m]["currency_id"] = "ARS"
        /\ edf[n]["discount"] = 1
        /\ edf[n]["currency_id"] = "ARS"
        /\ edf[n]["price"] = [n |-> 100, d |-> 1]
        /\ edf[n]["price_USD"] = [n |-> 1, d |-> 10]
        /\ edf[n]["descuento_precio"] = [n |-> 50, d |-> 1]
        /\ edf[n]["descuento_USD"] = [n |-> 1, d |-> 20]

\* C8: a row whose currency is not USD and has no rate makes the derivation
\* fail with no rate substituted: the failure comes at the first step, so no
\* price_USD and no other derived column is ever produced.
C8_MissingRateFailsFirst ==
    /\ (\E n \in RowIdx : RateMissing(edf[n])) =>
           /\ epc \in {"price_USD", "raised"}
           /\ \A n \in RowIdx : DOMAIN edf[n] \cap Derived = {}
    /\ epc = "raised" =>
           /\ eerr = "KeyError"
           /\ \E n \in RowIdx : RateMissing(edf[n])

W_C8 ==
    /\ epc = "raised"
    /\ Len(edf) = 2
    /\ ~RateMissing(edf[1])
    /\ edf[1]["currency_id"] # "USD"
    /\ RateMissing(edf[2])

\* C9: a USD row gets price_USD = price and descuento_USD = descuento_precio
\* whatever the rate map holds for USD (nothing, or a rate other than 1), and
\* a USD row never makes the derivation fail.
C9_UsdRowsUnconverted ==
    /\ epc = "done" =>
           \A n \in RowIdx :
               edf[n]["currency_id"] = "USD" =>
                   /\ edf[n]["price_USD"] = edf[n]["price"]
                   /\ edf[n]["descuento_USD"] = edf[n]["descuento_precio"]
    /\ (\A n \in RowIdx : edf[n]["currency_id"] = "USD") => epc # "raised"

W_C9 ==
    /\ epc = "done"
    /\ "USD" \in DOMAIN mapper_currency
    /\ mapper_currency["USD"] # [n |-> 1, d |-> 1]
    /\ \E n \in RowIdx :
        /\ edf[n]["currency_id"] = "USD"
        /\ edf[n]["discount"] = 1
        /\ edf[n]["descuento_USD"] = [n |-> 50, d |-> 1]

=============================================================================
